---- MODULE Spec2Model ----
(***************************************************************************)
(* A model of the CourtListener MCP server (server.py).                    *)
(*                                                                         *)
(* Python values are tagged records: Str, Num, Null, Arr (list) and Obj    *)
(* (dict).  A Python str is a sequence of atoms; an atom is a single       *)
(* character wherever the code measures or scans the text (opinion text,   *)
(* sub-opinion URLs, response bodies) and a literal chunk elsewhere.       *)
(* An exception leaving a function is the value Raise(name).               *)
(*                                                                         *)
(* Spec models one tool invocation at a time, step by step (the steps are  *)
(* the awaits on the upstream request).  SpecPool models the api_request   *)
(* calls of concurrent invocations over the one httpx.AsyncClient that     *)
(* app_lifespan builds: at most max_connections of them hold a connection, *)
(* the others wait in client.request until one is released or until the    *)
(* client's timeout (which covers the wait for the pool) expires.          *)
(***************************************************************************)
EXTENDS Integers, Sequences, FiniteSets, TLC

VARIABLES
    API_TOKEN,    \* the credential read from the environment at import
    pc,           \* where the current invocation is suspended
    tool,         \* the tool invoked
    args,         \* its arguments
    requests,     \* the upstream requests the invocation has issued, in order
    outcomes,     \* what the upstream answered to each of them, in order
    locals,       \* get_case_text's opinion_id, case_name, date_filed, case_url
    result,       \* what the invocation returned (NoResult while it runs)
    ready,        \* SpecPool: api_request calls that have not reached client.request
    waiting,      \* SpecPool: calls queued in client.request for a connection
    inflight,     \* SpecPool: calls holding a connection, by how they got it
    finished      \* SpecPool: calls that returned, by what decided their result

vars == <<API_TOKEN, pc, tool, args, requests, outcomes, locals, result,
          ready, waiting, inflight, finished>>
toolVars == <<API_TOKEN, pc, tool, args, requests, outcomes, locals, result>>
poolVars == <<ready, waiting, inflight, finished>>

----------------------------------------------------------------------------
(* Bounds of the model *)

MaxResults == 2      \* longest result list of a search payload
LimitSpan == 1       \* how far around the clamp's edges the limits are drawn
MaxTextLen == 3      \* longest opinion text field
NumCalls == 12        \* api_request calls of concurrent invocations in SpecPool

(* Program constants *)

MinLimit == 1
MaxLimit == 20
ExcerptLen == 300
MaxConnections == 10

----------------------------------------------------------------------------
(* Python values *)

Str(s) == [t |-> "str", s |-> s]
Num(n) == [t |-> "num", n |-> n]
Null == [t |-> "null"]
Arr(a) == [t |-> "arr", a |-> a]
Obj(o) == [t |-> "obj", o |-> o]
Raise(e) == [t |-> "raise", exc |-> e]
Ok(v) == [t |-> "ok", v |-> v]
NoResult == [t |-> "none"]
EmptyDict == <<>>

IsStr(v) == v.t = "str"
IsRaise(v) == v.t = "raise"

IsErrorSignal_Never(data) == FALSE
\* `isinstance(data, str)`, the tools' test for an error signal of api_request
IsErrorSignal(data) == IsStr(data)

\* bool(v)
Truthy(v) ==
    CASE v.t = "str" -> Len(v.s) > 0
      [] v.t = "num" -> v.n # 0
      [] v.t = "arr" -> Len(v.a) > 0
      [] v.t = "obj" -> DOMAIN v.o # {}
      [] OTHER -> FALSE

\* dict.get(key, default)
Get(o, key, default) == IF key \in DOMAIN o THEN o[key] ELSE default

\* str(v), as an f-string interpolates it
PyStr(v) ==
    CASE v.t = "str" -> v.s
      [] v.t = "num" -> <<ToString(v.n)>>
      [] v.t = "null" -> <<"None">>
      [] OTHER -> <<ToString(v)>>

\* sep.join(strs)
RECURSIVE Join(_, _)
Join(sep, strs) ==
    IF Len(strs) = 0 THEN <<>>
    ELSE IF Len(strs) = 1 THEN strs[1]
    ELSE strs[1] \o sep \o Join(sep, Tail(strs))

Whitespace == {" ", "\n", "\t"}

\* s.strip()
RECURSIVE Strip(_)
Strip(s) ==
    IF Len(s) = 0 THEN s
    ELSE IF s[1] \in Whitespace THEN Strip(Tail(s))
    ELSE IF s[Len(s)] \in Whitespace THEN Strip(SubSeq(s, 1, Len(s) - 1))
    ELSE s

\* the elements of a finite set, in some order
RECURSIVE SeqOfSet(_)
SeqOfSet(S) ==
    IF S = {} THEN <<>>
    ELSE LET x == CHOOSE y \in S : TRUE IN <<x>> \o SeqOfSet(S \ {x})

\* what `for x in v` iterates over: a list's elements, a str's characters, a
\* dict's keys (strs); any other value is not iterable
IterItems(v) ==
    CASE v.t = "arr" -> Ok(v.a)
      [] v.t = "str" -> Ok([i \in 1..Len(v.s) |-> Str(<<v.s[i]>>)])
      [] v.t = "obj" -> LET keys == SeqOfSet(DOMAIN v.o)
                        IN  Ok([i \in 1..Len(keys) |-> Str(<<keys[i]>>)])
      [] OTHER -> Raise("TypeError")

\* the first exception among the values of a sequence, if there is one
FirstRaise(seq) ==
    LET bad == {i \in 1..Len(seq) : IsRaise(seq[i])}
    IN  IF bad = {} THEN Ok(seq) ELSE seq[CHOOSE i \in bad : \A j \in bad : i <= j]

\* s[:k], Python's slice: a negative k counts from the end
SliceTo(s, k) ==
    IF k >= 0 THEN SubSeq(s, 1, IF k < Len(s) THEN k ELSE Len(s))
    ELSE SubSeq(s, 1, IF Len(s) + k > 0 THEN Len(s) + k ELSE 0)

\* the atoms of s that are not in drop, in order
RECURSIVE Without(_, _)
Without(s, drop) ==
    IF Len(s) = 0 THEN <<>>
    ELSE IF s[1] \in drop THEN Without(Tail(s), drop)
    ELSE <<s[1]>> \o Without(Tail(s), drop)

----------------------------------------------------------------------------
(* Upstream outcomes of one request *)

InvalidJson == [t |-> "invalid"]

Response(status, text, json) ==
    [kind |-> "response", status |-> status, text |-> text, json |-> json, exc |-> <<>>]
Timeout(exc) ==
    [kind |-> "timeout", status |-> 0, text |-> <<>>, json |-> InvalidJson, exc |-> <<exc>>]
RequestError(exc) ==
    [kind |-> "request_error", status |-> 0, text |-> <<>>, json |-> InvalidJson, exc |-> <<exc>>]

\* Response.is_success, which raise_for_status tests
is_success(status) == status \in 200..299

ErrConfig == Str(<<"Error: COURTLISTENER_API_TOKEN environment variable is not set.">>)
ErrAuth == Str(<<"Error: Invalid API token. Check COURTLISTENER_API_TOKEN.">>)
ErrRate == Str(<<"Error: Rate limit exceeded. CourtListener allows 5,000 requests/day.">>)
ErrNotFound == Str(<<"Error: Resource not found.">>)
ErrTimeout == Str(<<"Error: Request timed out after 30 seconds.">>)
ErrHttp(code, text) ==
    Str(<<"Error: HTTP ", ToString(code), " -- ">> \o SliceTo(text, ExcerptLen))
ErrConnection(exc) == Str(<<"Error: Connection failed -- ">> \o exc)

TokenMissing_NeverMissing(token) == FALSE
\* `not API_TOKEN`
TokenMissing(token) == token = ""

\* The except clauses of api_request, applied to the outcome of client.request
HandleOutcome(o) ==
    IF o.kind = "response" THEN
        IF is_success(o.status) THEN
            IF o.json.t = "invalid" THEN Raise("JSONDecodeError") ELSE o.json
        ELSE IF o.status = 401 THEN ErrAuth
        ELSE IF o.status = 429 THEN ErrRate
        ELSE IF o.status = 404 THEN ErrNotFound
        ELSE ErrHttp(o.status, o.text)
    ELSE IF o.kind = "timeout" THEN ErrTimeout
    ELSE ErrConnection(o.exc)

----------------------------------------------------------------------------
(* format_search_results *)

\* f"{c.get('volume', '')} {c.get('reporter', '')} {c.get('page', '')}".strip()
CiteOfDict(c) ==
    Strip(PyStr(Get(c.o, "volume", Str(<<>>))) \o <<" ">>
          \o PyStr(Get(c.o, "reporter", Str(<<>>))) \o <<" ">>
          \o PyStr(Get(c.o, "page", Str(<<>>))))

\* cite_strs, from `cites = case.get("citations") or []`
CiteStrs(cites) ==
    IF cites.t = "arr" THEN
        IF Len(cites.a) > 0 /\ cites.a[1].t = "obj" THEN
            IF \E i \in 1..Len(cites.a) : cites.a[i].t # "obj"
            THEN Raise("AttributeError")
            ELSE Ok([i \in 1..Len(cites.a) |-> CiteOfDict(cites.a[i])])
        ELSE Ok([i \in 1..Len(cites.a) |-> PyStr(cites.a[i])])
    ELSE Ok(<<PyStr(cites)>>)

\* `", ".join(cite_strs) or "None"`
CitationText(cite_strs) ==
    LET joined == Join(<<", ">>, cite_strs)
    IN  IF Len(joined) = 0 THEN <<"None">> ELSE joined

MarkTags == {"<mark>", "</mark>"}

\* re.sub(r"</?mark>", "", snippet)
StripMarks(snippet) == Without(snippet, MarkTags)

BlockNumber_FromZero(i) == i - 1
\* the number enumerate(results, 1) gives the i-th result
BlockNumber(i) == i

\* one pass of the loop body: the block of the i-th result, or the exception it raises
FormatCase(i, case) ==
    IF case.t # "obj" THEN Raise("AttributeError")
    ELSE
        LET c == case.o
            got == Get(c, "citations", Null)
            cites == IF Truthy(got) THEN got ELSE Arr(<<>>)
            cs == CiteStrs(cites)
            snippet == Get(c, "snippet", Str(<<"N/A">>))
        IN  IF IsRaise(cs) THEN cs
            ELSE IF snippet.t # "str" THEN Raise("TypeError")
            ELSE Ok(<<ToString(BlockNumber(i)), ". ">>
                    \o PyStr(Get(c, "caseName", Str(<<"Unknown">>)))
                    \o <<" (">> \o PyStr(Get(c, "court", Str(<<"?">>)))
                    \o <<", ">> \o PyStr(Get(c, "dateFiled", Str(<<"?">>)))
                    \o <<")", "\n", "   Citations: ">> \o CitationText(cs.v)
                    \o <<"\n", "   Cited by: ">>
                    \o PyStr(Get(c, "citeCount", Get(c, "citation_count", Num(0))))
                    \o <<" cases", "\n", "   Snippet: ">> \o StripMarks(snippet.s)
                    \o <<"\n", "   Cluster ID: ">>
                    \o PyStr(Get(c, "cluster_id", Str(<<"N/A">>)))
                    \o <<"\n", "   URL: https://www.courtlistener.com">>
                    \o PyStr(Get(c, "absolute_url", Str(<<>>)))
                    \o <<"\n">>)

format_search_results(data, header) ==
    IF data.t # "obj" THEN Raise("AttributeError")
    ELSE
        LET count == Get(data.o, "count", Num(0))
            results == Get(data.o, "results", Arr(<<>>))
        IN  IF ~Truthy(results) THEN Str(<<"No results found. ">> \o header)
            ELSE
                LET items == IterItems(results)
                IN  IF IsRaise(items) THEN items
                    ELSE
                        LET blocks == FirstRaise([i \in 1..Len(items.v) |->
                                                     FormatCase(i, items.v[i])])
                            first == header \o <<" (">> \o PyStr(count)
                                     \o <<" total results)", "\n">>
                        IN  IF IsRaise(blocks) THEN blocks
                            ELSE Str(Join(<<"\n">>,
                                          <<first>> \o [i \in 1..Len(blocks.v) |->
                                                           blocks.v[i].v]))

----------------------------------------------------------------------------
(* _search_params *)

Min(a, b) == IF a < b THEN a ELSE b
Max(a, b) == IF a > b THEN a ELSE b

ClampLimit_NoUpper(limit) == Max(limit, MinLimit)
\* min(max(limit, 1), 20)
ClampLimit(limit) == Min(Max(limit, MinLimit), MaxLimit)

_search_params(query, court, filed_after, filed_before, order_by, limit) ==
    [type |-> <<"o">>, q |-> query, order_by |-> order_by, limit |-> ClampLimit(limit)]
    @@ (IF Len(court) > 0 THEN [court |-> court] ELSE EmptyDict)
    @@ (IF Len(filed_after) > 0 THEN [filed_after |-> filed_after] ELSE EmptyDict)
    @@ (IF Len(filed_before) > 0 THEN [filed_before |-> filed_before] ELSE EmptyDict)

BASE_V3 == "https://www.courtlistener.com/api/rest/v3"
BASE_V4 == "https://www.courtlistener.com/api/rest/v4"

\* the arguments of client.request(method, url, **kwargs)
Request(method, url, params, data) ==
    [method |-> method, url |-> url, params |-> params, data |-> data]

SearchRequest(params) == Request("GET", <<BASE_V4, "/search/">>, params, EmptyDict)

----------------------------------------------------------------------------
(* lookup_citation *)

LookupRequest(citation) ==
    Request("POST", <<BASE_V3, "/citation-lookup/">>, EmptyDict, [text |-> citation])

\* `status == 200`
NumIs(v, n) == v.t = "num" /\ v.n = n

\* the generator inside ", ".join(...) over a cluster's citations
ClusterCiteText(cites) ==
    IF ~Truthy(cites) THEN Ok(<<"None">>)
    ELSE
        LET items == IterItems(cites)
        IN  IF IsRaise(items) THEN items
            ELSE IF \E i \in 1..Len(items.v) : items.v[i].t # "obj"
            THEN Raise("AttributeError")
            ELSE Ok(Join(<<", ">>, [i \in 1..Len(items.v) |-> CiteOfDict(items.v[i])]))

\* the lines one resolved cluster adds
LookupClusterLines(cl) ==
    IF cl.t # "obj" THEN Raise("AttributeError")
    ELSE
        LET url == Get(cl.o, "absolute_url", Str(<<>>))
            cite_text == ClusterCiteText(Get(cl.o, "citations", Arr(<<>>)))
        IN  IF IsRaise(cite_text) THEN cite_text
            ELSE Ok(<< <<"\n", "Case: ">> \o PyStr(Get(cl.o, "case_name", Str(<<"Unknown">>))),
                       <<"Date Filed: ">> \o PyStr(Get(cl.o, "date_filed", Str(<<"?">>))),
                       <<"Citations: ">> \o cite_text.v,
                       <<"Cluster ID: ">> \o PyStr(Get(cl.o, "id", Str(<<"?">>))) >>
                    \o (IF Truthy(url)
                        THEN << <<"URL: https://www.courtlistener.com">> \o PyStr(url) >>
                        ELSE <<>>))

\* the concatenation of a sequence of sequences
RECURSIVE Flatten(_)
Flatten(seqs) == IF Len(seqs) = 0 THEN <<>> ELSE seqs[1] \o Flatten(Tail(seqs))

\* ', '.join(normalized): every element has to be a str
NormalizedLine(normalized) ==
    LET items == IterItems(normalized)
    IN  IF IsRaise(items) THEN items
        ELSE IF \E i \in 1..Len(items.v) : items.v[i].t # "str" THEN Raise("TypeError")
        ELSE Ok(<<"Normalized: ">>
                \o Join(<<", ">>, [i \in 1..Len(items.v) |-> items.v[i].s]))

\* the lines one lookup entry adds
LookupItemLines(item) ==
    IF item.t # "obj" THEN Raise("AttributeError")
    ELSE
        LET cite_str == Get(item.o, "citation", Str(<<"?">>))
            normalized == Get(item.o, "normalized_citations", Arr(<<>>))
            status == Get(item.o, "status", Str(<<"?">>))
            got == Get(item.o, "clusters", Null)
            norm == IF Truthy(normalized) THEN NormalizedLine(normalized) ELSE Ok(<<>>)
            head == << <<"Citation: ">> \o PyStr(cite_str) >>
                    \o (IF Truthy(normalized) /\ ~IsRaise(norm) THEN <<norm.v>> ELSE <<>>)
                    \o << <<"Status: ">> \o PyStr(status) >>
        IN  IF IsRaise(norm) THEN norm
            ELSE IF Truthy(got) /\ NumIs(status, 200) THEN
                LET clusters == IF got.t = "obj" THEN Ok(<<got>>) ELSE IterItems(got)
                IN  IF IsRaise(clusters) THEN clusters
                    ELSE
                        LET per == FirstRaise([i \in 1..Len(clusters.v) |->
                                                  LookupClusterLines(clusters.v[i])])
                        IN  IF IsRaise(per) THEN per
                            ELSE Ok(head
                                    \o Flatten([i \in 1..Len(per.v) |-> per.v[i].v])
                                    \o << <<>> >>)
            ELSE IF NumIs(status, 404)
            THEN Ok(head \o << <<"No matching case found for this citation.">>, <<>> >>)
            ELSE Ok(head \o << <<>> >>)

\* lookup_citation from the return of api_request on
LookupFinish(data, citation) ==
    IF IsErrorSignal(data) \/ IsRaise(data) THEN data
    ELSE IF ~Truthy(data) THEN Str(<<"No cases found for citation: ">> \o citation)
    ELSE
        LET items == IterItems(data)
        IN  IF IsRaise(items) THEN items
            ELSE
                LET per == FirstRaise([i \in 1..Len(items.v) |-> LookupItemLines(items.v[i])])
                IN  IF IsRaise(per) THEN per
                    ELSE Str(Strip(Join(<<"\n">>,
                                        Flatten([i \in 1..Len(per.v) |-> per.v[i].v]))))

----------------------------------------------------------------------------
(* the search tools from the return of api_request on *)

SearchFinish(data, header) ==
    IF IsErrorSignal(data) \/ IsRaise(data) THEN data
    ELSE format_search_results(data, header)

HeaderOf(t, a) ==
    CASE t = "search_cases" -> <<"Search results for \"">> \o a.query \o <<"\"">>
      [] t = "semantic_search" -> <<"Semantic search results for \"">> \o a.query \o <<"\"">>
      [] t = "find_citing_cases" -> <<"Cases citing cluster ", ToString(a.cluster_id)>>

----------------------------------------------------------------------------
(* get_case_text *)

ErrNoIds == Str(<<"Error: Provide either cluster_id or opinion_id.">>)
ErrNoOpinions(cluster_id) ==
    Str(<<"Error: No opinions found in cluster ", ToString(cluster_id), ".">>)
ErrParse == Str(<<"Error: Could not parse opinion ID from cluster data.">>)
ErrNoText(opinion_id) ==
    Str(<<"Error: No text content available for opinion ", ToString(opinion_id), ".">>)

ClusterRequest(cluster_id) ==
    Request("GET", <<BASE_V3, "/clusters/", ToString(cluster_id), "/">>, EmptyDict, EmptyDict)
OpinionRequest(opinion_id) ==
    Request("GET", <<BASE_V3, "/opinions/", ToString(opinion_id), "/">>, EmptyDict, EmptyDict)

Digits == {"0", "1", "2", "3", "4", "5", "6", "7", "8", "9"}
DigitVal(d) ==
    CASE d = "0" -> 0 [] d = "1" -> 1 [] d = "2" -> 2 [] d = "3" -> 3 [] d = "4" -> 4
      [] d = "5" -> 5 [] d = "6" -> 6 [] d = "7" -> 7 [] d = "8" -> 8 [] d = "9" -> 9

\* int(digits)
RECURSIVE ParseInt(_)
ParseInt(ds) ==
    IF Len(ds) = 0 THEN 0
    ELSE 10 * ParseInt(SubSeq(ds, 1, Len(ds) - 1)) + DigitVal(ds[Len(ds)])

OpinionsSeg == <<"/", "o", "p", "i", "n", "i", "o", "n", "s", "/">>

\* the length of the run of digits of s that starts at position i
RECURSIVE DigitRun(_, _)
DigitRun(s, i) == IF i <= Len(s) /\ s[i] \in Digits THEN 1 + DigitRun(s, i + 1) ELSE 0

\* r"/opinions/(\d+)/" matches s at position i
MatchesAt(s, i) ==
    LET d == DigitRun(s, i + Len(OpinionsSeg))
        after == i + Len(OpinionsSeg) + d
    IN  /\ i + Len(OpinionsSeg) - 1 <= Len(s)
        /\ SubSeq(s, i, i + Len(OpinionsSeg) - 1) = OpinionsSeg
        /\ d >= 1
        /\ after <= Len(s)
        /\ s[after] = "/"

\* re.search scans from the left: the match is the leftmost one
SearchFrom(s, hits) == CHOOSE i \in hits : \A j \in hits : i <= j

\* re.search(r"/opinions/(\d+)/", first_url): group 1 of the match, or no match
SearchOpinionId(first_url) ==
    LET hits == {i \in 1..Len(first_url) : MatchesAt(first_url, i)}
    IN  IF hits = {} THEN [matched |-> FALSE, group |-> <<>>]
        ELSE LET i == SearchFrom(first_url, hits)
                 from == i + Len(OpinionsSeg)
             IN  [matched |-> TRUE,
                  group |-> SubSeq(first_url, from, from + DigitRun(first_url, from) - 1)]

FirstOf_Last(v) ==
    CASE v.t = "arr" -> v.a[Len(v.a)]
      [] v.t = "str" -> Str(<<v.s[Len(v.s)]>>)
      [] v.t = "obj" -> Raise("KeyError")
      [] OTHER -> Raise("TypeError")
\* sub_opinions[0]
FirstOf(v) ==
    CASE v.t = "arr" -> v.a[1]
      [] v.t = "str" -> Str(<<v.s[1]>>)
      [] v.t = "obj" -> Raise("KeyError")
      [] OTHER -> Raise("TypeError")

InitLocals ==
    [opinion_id |-> 0, case_name |-> Str(<<"Unknown">>), date_filed |-> Str(<<"?">>),
     case_url |-> Str(<<>>)]

Return(v) == [next |-> "return", value |-> v, locals |-> InitLocals]
Fetch(l) == [next |-> "fetch", value |-> NoResult, locals |-> l]

\* get_case_text from the return of the cluster's api_request to the opinion fetch
ClusterFinish(cluster_data, cluster_id) ==
    IF IsErrorSignal(cluster_data) \/ IsRaise(cluster_data) THEN Return(cluster_data)
    ELSE IF cluster_data.t # "obj" THEN Return(Raise("AttributeError"))
    ELSE
        LET sub_opinions == Get(cluster_data.o, "sub_opinions", Arr(<<>>))
        IN  IF ~Truthy(sub_opinions) THEN Return(ErrNoOpinions(cluster_id))
            ELSE
                LET head == FirstOf(sub_opinions)
                    first_url == IF IsStr(head) THEN head.s ELSE <<>>
                    match == SearchOpinionId(first_url)
                IN  IF IsRaise(head) THEN Return(head)
                    ELSE IF match.matched
                    THEN Fetch([opinion_id |-> ParseInt(match.group),
                                case_name |-> Get(cluster_data.o, "case_name", Str(<<"Unknown">>)),
                                date_filed |-> Get(cluster_data.o, "date_filed", Str(<<"?">>)),
                                case_url |-> Get(cluster_data.o, "absolute_url", Str(<<>>))])
                    ELSE Return(ErrParse)

\* re.sub(r"<[^>]+>", "", raw): a tag runs from a "<" to the first ">" after it,
\* with at least one character between them
RECURSIVE StripTags(_)
StripTags(raw) ==
    IF Len(raw) = 0 THEN <<>>
    ELSE
        LET closes == {j \in 2..Len(raw) : raw[j] = ">"}
            close == IF closes = {} THEN 0 ELSE CHOOSE j \in closes : \A k \in closes : j <= k
        IN  IF raw[1] = "<" /\ close >= 3
            THEN StripTags(SubSeq(raw, close + 1, Len(raw)))
            ELSE <<raw[1]>> \o StripTags(Tail(raw))

HtmlFields_Reversed ==
    <<"xml_harvard", "html_anon_2020", "html_lawbox", "html_columbia", "html",
      "html_with_citations">>
\* the fields tried after plain_text, in order
HtmlFields ==
    <<"html_with_citations", "html", "html_columbia", "html_lawbox", "html_anon_2020",
      "xml_harvard">>

\* the for loop over the html fields: text and source after it
HtmlText(doc) ==
    LET hit == {i \in 1..Len(HtmlFields) : Truthy(Get(doc, HtmlFields[i], Str(<<>>)))}
    IN  IF hit = {} THEN Ok([text |-> Str(<<>>), source |-> "plain_text"])
        ELSE LET i == CHOOSE k \in hit : \A j \in hit : k <= j
                 raw == Get(doc, HtmlFields[i], Str(<<>>))
             IN  IF raw.t # "str" THEN Raise("TypeError")
                 ELSE Ok([text |-> Str(StripTags(raw.s)), source |-> HtmlFields[i]])

\* the text extraction: plain_text first, the html fields if it is empty
ExtractText(doc) ==
    LET plain == Get(doc, "plain_text", Str(<<>>))
    IN  IF Truthy(plain) THEN Ok([text |-> plain, source |-> "plain_text"])
        ELSE HtmlText(doc)

\* f"{n:,}"
RECURSIVE Thousands(_)
Thousands(n) ==
    IF n < 0 THEN <<"-">> \o Thousands(-n)
    ELSE IF n < 1000 THEN <<ToString(n)>>
    ELSE Thousands(n \div 1000)
         \o <<",", ToString((n % 1000) \div 100), ToString((n % 100) \div 10),
              ToString(n % 10)>>

PyEq(v, w) == v.t = w.t /\ v = w

Truncates_AtOrOver(len, max_characters) == len >= max_characters
\* `len(text) > max_characters`
Truncates(len, max_characters) == len > max_characters

\* get_case_text from the return of the opinion's api_request on
OpinionFinish(opinion_data, l, max_characters) ==
    IF IsErrorSignal(opinion_data) \/ IsRaise(opinion_data) THEN opinion_data
    ELSE IF opinion_data.t # "obj" THEN Raise("AttributeError")
    ELSE
        LET doc == opinion_data.o
            ext == ExtractText(doc)
        IN  IF IsRaise(ext) THEN ext
            ELSE IF ~Truthy(ext.v.text) THEN ErrNoText(l.opinion_id)
            ELSE IF ext.v.text.t # "str" THEN Raise("TypeError")
            ELSE
                LET full == ext.v.text.s
                    truncated == Truncates(Len(full), max_characters)
                    text == IF truncated THEN SliceTo(full, max_characters) ELSE full
                    author == Get(doc, "author_str", Str(<<>>))
                    op_type == Get(doc, "type", Str(<<>>))
                    full_url == IF Truthy(l.case_url)
                                THEN <<"https://www.courtlistener.com">> \o PyStr(l.case_url)
                                ELSE <<>>
                    lines ==
                        (IF ~PyEq(l.case_name, Str(<<"Unknown">>))
                         THEN << <<"Case: ">> \o PyStr(l.case_name) >> ELSE <<>>)
                        \o (IF ~PyEq(l.date_filed, Str(<<"?">>))
                            THEN << <<"Date: ">> \o PyStr(l.date_filed) >> ELSE <<>>)
                        \o (IF Truthy(author)
                            THEN << <<"Author: ">> \o PyStr(author) >> ELSE <<>>)
                        \o (IF Truthy(op_type)
                            THEN << <<"Opinion Type: ">> \o PyStr(op_type) >> ELSE <<>>)
                        \o << <<"Text Source: ", ext.v.source>>,
                              <<"Opinion ID: ", ToString(l.opinion_id)>>,
                              <<>>,
                              <<"--- OPINION TEXT ---">>,
                              text >>
                        \o (IF truncated
                            THEN << <<"\n", "[Truncated at ">> \o Thousands(max_characters)
                                    \o <<" characters. ", "Full opinion: ">> \o full_url
                                    \o <<"]">> >>
                            ELSE <<>>)
                IN  Str(Join(<<"\n">>, lines))

----------------------------------------------------------------------------
(* The inputs the model draws: tool arguments and upstream outcomes *)

Tokens == {"", "tok"}

Queries == {<<"miranda">>}
Filters ==
    {[court |-> <<>>, filed_after |-> <<>>, filed_before |-> <<>>],
     [court |-> <<"scotus">>, filed_after |-> <<>>, filed_before |-> <<>>],
     [court |-> <<"ca9">>, filed_after |-> <<"2000-01-01">>, filed_before |-> <<"2010-12-31">>]}
OrderBys == {<<"score desc">>, <<"dateFiled desc">>}
Limits ==
    UNION {{MinLimit - k, MinLimit + k, MaxLimit - k, MaxLimit + k} : k \in 0..LimitSpan}
    \cup {-5, 10, 500}
ClusterIds == {0, 12345}
OpinionIds == {0, 55}
Citations == {<<"410 U.S. 113">>}

\* a response body of n characters
BodyOf(n) == [i \in 1..n |-> ToString(i % 10)]

ErrorStatuses == {301, 400, 401, 403, 404, 429, 500}
ErrorOutcomes ==
    {Response(st, BodyOf(n), InvalidJson) : st \in ErrorStatuses, n \in {0, ExcerptLen + 1}}
    \cup {Response(500, BodyOf(n), InvalidJson) : n \in {2, ExcerptLen}}
    \cup {Timeout(e) : e \in {"ReadTimeout", "ConnectTimeout", "PoolTimeout"}}
    \cup {RequestError(e) : e \in {"ConnectError", "ReadError"}}

\* 2xx answers that are no JSON, or JSON of a shape no endpoint documents
OddPayloads ==
    {InvalidJson, Null, Num(7), Arr(<<>>), Arr(<<Num(1)>>), Obj(EmptyDict),
     Str(<<"maintenance">>), Str(ErrNotFound.s)}
OddOutcomes ==
    {Response(200, <<>>, p) : p \in OddPayloads} \cup {Response(204, <<>>, InvalidJson)}

CaseRoe ==
    Obj([caseName |-> Str(<<"Roe v. Wade">>), court |-> Str(<<"scotus">>),
         dateFiled |-> Str(<<"1973-01-22">>),
         citations |-> Arr(<<Obj([volume |-> Str(<<"410">>), reporter |-> Str(<<"U.S.">>),
                                 page |-> Str(<<"113">>)]),
                            Obj([volume |-> Num(93), reporter |-> Str(<<"S. Ct.">>)])>>),
         snippet |-> Str(<<"right of ", "<mark>", "privacy", "</mark>", " is broad">>),
         citeCount |-> Num(5000), cluster_id |-> Num(108713),
         absolute_url |-> Str(<<"/opinion/108713/roe-v-wade/">>)])
CaseMiranda ==
    Obj([caseName |-> Str(<<"Miranda v. Arizona">>), court |-> Str(<<"scotus">>),
         citations |-> Arr(<<Str(<<"384 U.S. 436">>)>>),
         citation_count |-> Num(9000), cluster_id |-> Num(107252)])
CaseBare == Obj([cluster_id |-> Num(1), citations |-> Null])
CaseNullSnippet == Obj([caseName |-> Str(<<"Null snippet">>), snippet |-> Null])
CaseMixedCites ==
    Obj([caseName |-> Str(<<"Mixed cites">>),
         citations |-> Arr(<<Obj([volume |-> Str(<<"1">>)]), Str(<<"1 U.S. 1">>)>>)])
CaseNotDict == Str(<<"not a dict">>)

WellFormedCases == {CaseRoe, CaseMiranda, CaseBare}
CaseSamples == WellFormedCases \cup {CaseNullSnippet, CaseMixedCites, CaseNotDict}

ResultLists == UNION {[1..n -> CaseSamples] : n \in 0..MaxResults}

SearchPayloads ==
    {Obj([count |-> Num(100 + Len(r)), results |-> Arr(r)]) : r \in ResultLists}
    \cup {Obj([results |-> Arr(<<CaseMiranda>>)]),
          Obj([count |-> Num(1), results |-> Num(7)]),
          Obj([count |-> Num(1), results |-> Str(<<"x">>)]),
          Obj([count |-> Num(1), results |-> Obj([a |-> Num(1)])])}
SearchOutcomes ==
    ErrorOutcomes \cup OddOutcomes \cup {Response(200, <<>>, p) : p \in SearchPayloads}

ClusterRoe ==
    [id |-> Num(108713), case_name |-> Str(<<"Roe v. Wade">>),
     date_filed |-> Str(<<"1973-01-22">>),
     absolute_url |-> Str(<<"/opinion/108713/roe-v-wade/">>),
     citations |-> Arr(<<Obj([volume |-> Str(<<"410">>), reporter |-> Str(<<"U.S.">>),
                             page |-> Str(<<"113">>)])>>)]
LookupPayloads ==
    {Arr(<<Obj([citation |-> Str(<<"410 U.S. 113">>),
                normalized_citations |-> Arr(<<Str(<<"410 U.S. 113">>)>>),
                status |-> Num(200), clusters |-> Arr(<<Obj(ClusterRoe)>>)])>>),
     Arr(<<Obj([citation |-> Str(<<"410 U.S. 113">>), status |-> Num(200),
                clusters |-> Obj(ClusterRoe)])>>),
     Arr(<<Obj([citation |-> Str(<<"1 U.S. 1">>), status |-> Num(404),
                clusters |-> Arr(<<>>)]),
            Obj([citation |-> Str(<<"2 U.S. 2">>), status |-> Num(300)])>>),
     Arr(<<Obj([citation |-> Str(<<"410 U.S. 113">>),
                normalized_citations |-> Arr(<<Null>>), status |-> Num(200)])>>),
     Arr(<<Obj([status |-> Num(200), clusters |-> Arr(<<Str(<<"x">>)>>)])>>),
     Arr(<<Obj([status |-> Num(200), clusters |-> Num(3)])>>),
     Arr(<<Obj([status |-> Num(200),
                clusters |-> Obj([citations |-> Arr(<<Str(<<"410 U.S. 113">>)>>)])])>>),
     Obj([detail |-> Str(<<"unexpected">>)])}
LookupOutcomes ==
    ErrorOutcomes \cup OddOutcomes \cup {Response(200, <<>>, p) : p \in LookupPayloads}

UrlPrefix == <<"h", "t", "t", "p", "s", ":", "/", "/", "x">>
Url987 == UrlPrefix \o OpinionsSeg \o <<"9", "8", "7", "/">>
UrlLeadingZeros == OpinionsSeg \o <<"0", "0", "7", "/", "?">>
UrlSecondMatches ==
    UrlPrefix \o OpinionsSeg \o <<"1", "2", "x">> \o OpinionsSeg \o <<"3", "4", "/">>
    \o <<"a">> \o OpinionsSeg \o <<"5", "/">>
UrlTwoMatches == OpinionsSeg \o <<"1">> \o OpinionsSeg \o <<"2", "/">>
UrlNoSlash == UrlPrefix \o OpinionsSeg \o <<"9", "8", "7">>
UrlNoDigits == UrlPrefix \o OpinionsSeg \o <<"/">>
UrlCluster == UrlPrefix \o <<"/", "c", "l", "u", "s", "t", "e", "r", "s", "/", "5", "/">>

MatchingUrls == {Url987, UrlLeadingZeros, UrlSecondMatches, UrlTwoMatches}
OtherUrls == {UrlNoSlash, UrlNoDigits, UrlCluster, <<>>}

ClusterMeta ==
    [case_name |-> Str(<<"Roe v. Wade">>), date_filed |-> Str(<<"1973-01-22">>),
     absolute_url |-> Str(<<"/opinion/108713/roe-v-wade/">>)]

ClusterPayloads ==
    {Obj(ClusterMeta @@ [sub_opinions |-> Arr(<<Str(u), Str(UrlCluster)>>)]) :
        u \in MatchingUrls \cup OtherUrls}
    \cup {Obj([sub_opinions |-> Arr(<<Str(Url987)>>)]),
          Obj([sub_opinions |-> Arr(<<>>)]),
          Obj(ClusterMeta),
          Obj([sub_opinions |-> Arr(<<Num(987), Str(Url987)>>)]),
          Obj([sub_opinions |-> Str(Url987)]),
          Obj([sub_opinions |-> Obj([url |-> Str(Url987)])]),
          Obj([sub_opinions |-> Num(987)])}
ClusterOutcomes ==
    ErrorOutcomes \cup OddOutcomes \cup {Response(200, <<>>, p) : p \in ClusterPayloads}

TextAlphabet == {"a", "<", ">"}
Texts == UNION {[1..n -> TextAlphabet] : n \in 0..MaxTextLen}
MaxChars == ((-2)..(MaxTextLen + 1)) \cup {50000}

TextFields == {"plain_text"} \cup {HtmlFields[i] : i \in 1..Len(HtmlFields)}

\* an opinion whose plain_text is empty, whose i-th html field holds v, and
\* whose next html field holds "z" when decoy
HtmlDoc(i, v, decoy) ==
    [f \in TextFields |->
        IF f = HtmlFields[i] THEN Str(v)
        ELSE IF decoy /\ i < Len(HtmlFields) /\ f = HtmlFields[i + 1] THEN Str(<<"z">>)
        ELSE Str(<<>>)]
PlainDoc(v, html) ==
    [f \in TextFields |->
        IF f = "plain_text" THEN Str(v)
        ELSE IF f = "html_with_citations" THEN Str(html)
        ELSE Str(<<>>)]
OpinionMeta == [author_str |-> Str(<<"Blackmun">>), type |-> Str(<<"010combined">>)]

OpinionPayloads ==
    {Obj(HtmlDoc(i, v, decoy)) :
        i \in 1..Len(HtmlFields), v \in Texts, decoy \in BOOLEAN}
    \cup {Obj(PlainDoc(v, html)) : v \in Texts \ {<<>>}, html \in {<<>>, <<"z">>}}
    \cup {Obj(PlainDoc(<<"a">>, <<>>) @@ OpinionMeta),
          Obj([html |-> Str(<<"<", "a", ">", "a">>)]),
          Obj([plain_text |-> Null, html_lawbox |-> Str(<<"a">>)]),
          Obj([plain_text |-> Num(5)]),
          Obj([plain_text |-> Arr(<<Str(<<"a">>)>>)]),
          Obj([html |-> Num(5)])}
OpinionOutcomes ==
    ErrorOutcomes \cup OddOutcomes \cup {Response(200, <<>>, p) : p \in OpinionPayloads}

----------------------------------------------------------------------------
(* api_request *)

\* a placeholder for the outcome of a request that is never sent
Unsent == RequestError("unsent")

\* The value `await api_request(...)` gives the tool, o being what
\* client.request does when it is reached
api_request(token, o) ==
    IF TokenMissing(token) THEN ErrConfig ELSE HandleOutcome(o)

----------------------------------------------------------------------------
(* The invocation of a tool, up to its first await on the network or its return *)

Begin(t, a) ==
    /\ pc = "idle"
    /\ tool' = t
    /\ args' = a
    /\ outcomes' = <<>>
    /\ UNCHANGED <<API_TOKEN, poolVars>>

\* the invocation returns v, having issued the requests issued
Finish(v, issued) ==
    /\ pc' = "done"
    /\ result' = v
    /\ requests' = issued

\* the invocation is suspended in client.request(req)
Await(req, at, issued) ==
    /\ pc' = at
    /\ result' = NoResult
    /\ requests' = Append(issued, req)

search_cases(query, f, order_by, limit) ==
    LET a == [query |-> query, court |-> f.court, filed_after |-> f.filed_after,
              filed_before |-> f.filed_before, order_by |-> order_by, limit |-> limit]
        params == _search_params(query, f.court, f.filed_after, f.filed_before,
                                 order_by, limit)
    IN  /\ Begin("search_cases", a)
        /\ locals' = InitLocals
        /\ IF TokenMissing(API_TOKEN)
           THEN Finish(SearchFinish(api_request(API_TOKEN, Unsent),
                                    HeaderOf("search_cases", a)), <<>>)
           ELSE Await(SearchRequest(params), "await_search", <<>>)

semantic_search(query, f, limit) ==
    LET a == [query |-> query, court |-> f.court, filed_after |-> f.filed_after,
              filed_before |-> f.filed_before, limit |-> limit]
        params == _search_params(query, f.court, f.filed_after, f.filed_before,
                                 <<"score desc">>, limit)
    IN  /\ Begin("semantic_search", a)
        /\ locals' = InitLocals
        /\ IF TokenMissing(API_TOKEN)
           THEN Finish(SearchFinish(api_request(API_TOKEN, Unsent),
                                    HeaderOf("semantic_search", a)), <<>>)
           ELSE Await(SearchRequest(params), "await_search", <<>>)

find_citing_cases(cluster_id, f, order_by, limit) ==
    LET a == [cluster_id |-> cluster_id, court |-> f.court, filed_after |-> f.filed_after,
              filed_before |-> f.filed_before, order_by |-> order_by, limit |-> limit]
        query == <<"cites:(", ToString(cluster_id), ")">>
        params == _search_params(query, f.court, f.filed_after, f.filed_before,
                                 order_by, limit)
    IN  /\ Begin("find_citing_cases", a)
        /\ locals' = InitLocals
        /\ IF TokenMissing(API_TOKEN)
           THEN Finish(SearchFinish(api_request(API_TOKEN, Unsent),
                                    HeaderOf("find_citing_cases", a)), <<>>)
           ELSE Await(SearchRequest(params), "await_search", <<>>)

lookup_citation(citation) ==
    /\ Begin("lookup_citation", [citation |-> citation])
    /\ locals' = InitLocals
    /\ IF TokenMissing(API_TOKEN)
       THEN Finish(LookupFinish(api_request(API_TOKEN, Unsent), citation), <<>>)
       ELSE Await(LookupRequest(citation), "await_lookup", <<>>)

\* the opinion fetch and what follows it, l being the locals at that point
FetchOpinion(l, max_characters, issued) ==
    /\ locals' = l
    /\ IF TokenMissing(API_TOKEN)
       THEN Finish(OpinionFinish(api_request(API_TOKEN, Unsent), l, max_characters), issued)
       ELSE Await(OpinionRequest(l.opinion_id), "await_opinion", issued)

get_case_text(cluster_id, opinion_id, max_characters) ==
    /\ Begin("get_case_text", [cluster_id |-> cluster_id, opinion_id |-> opinion_id,
                               max_characters |-> max_characters])
    /\ IF cluster_id = 0 /\ opinion_id = 0
       THEN Finish(ErrNoIds, <<>>) /\ locals' = InitLocals
       ELSE IF opinion_id = 0
       THEN /\ locals' = InitLocals
            /\ IF TokenMissing(API_TOKEN)
               THEN Finish(ClusterFinish(api_request(API_TOKEN, Unsent), cluster_id).value,
                           <<>>)
               ELSE Await(ClusterRequest(cluster_id), "await_cluster", <<>>)
       ELSE FetchOpinion([InitLocals EXCEPT !.opinion_id = opinion_id], max_characters, <<>>)

----------------------------------------------------------------------------
(* The upstream answers the pending request: the invocation runs on to its
   next await or to its return *)

Answer(o) ==
    /\ outcomes' = Append(outcomes, o)
    /\ UNCHANGED <<API_TOKEN, tool, args, poolVars>>

SearchResponse(o) ==
    /\ pc = "await_search"
    /\ Answer(o)
    /\ Finish(SearchFinish(api_request(API_TOKEN, o), HeaderOf(tool, args)), requests)
    /\ UNCHANGED locals

LookupResponse(o) ==
    /\ pc = "await_lookup"
    /\ Answer(o)
    /\ Finish(LookupFinish(api_request(API_TOKEN, o), args.citation), requests)
    /\ UNCHANGED locals

ClusterResponse(o) ==
    /\ pc = "await_cluster"
    /\ Answer(o)
    /\ LET step == ClusterFinish(api_request(API_TOKEN, o), args.cluster_id)
       IN  IF step.next = "return"
           THEN Finish(step.value, requests) /\ UNCHANGED locals
           ELSE FetchOpinion(step.locals, args.max_characters, requests)

OpinionResponse(o) ==
    /\ pc = "await_opinion"
    /\ Answer(o)
    /\ Finish(OpinionFinish(api_request(API_TOKEN, o), locals, args.max_characters), requests)
    /\ UNCHANGED locals

\* The result goes back to the client; nothing of the invocation is kept
Deliver ==
    /\ pc = "done"
    /\ pc' = "idle"
    /\ tool' = "none"
    /\ args' = EmptyDict
    /\ requests' = <<>>
    /\ outcomes' = <<>>
    /\ locals' = InitLocals
    /\ result' = NoResult
    /\ UNCHANGED <<API_TOKEN, poolVars>>

----------------------------------------------------------------------------

NoneInFlight == [direct |-> 0, queued |-> 0]
NoneFinished == [own |-> 0, own_delayed |-> 0, pool_timeout |-> 0]

PoolIdle ==
    /\ ready = 0
    /\ waiting = 0
    /\ inflight = NoneInFlight
    /\ finished = NoneFinished

Init ==
    /\ API_TOKEN \in Tokens
    /\ pc = "idle"
    /\ tool = "none"
    /\ args = EmptyDict
    /\ requests = <<>>
    /\ outcomes = <<>>
    /\ locals = InitLocals
    /\ result = NoResult
    /\ PoolIdle

Next ==
    \/ \E q \in Queries, f \in Filters, ob \in OrderBys, lim \in Limits :
          search_cases(q, f, ob, lim)
    \/ \E q \in Queries, f \in Filters, lim \in Limits : semantic_search(q, f, lim)
    \/ \E c \in ClusterIds, f \in Filters, ob \in OrderBys, lim \in Limits :
          find_citing_cases(c, f, ob, lim)
    \/ \E c \in Citations : lookup_citation(c)
    \/ \E c \in ClusterIds, op \in OpinionIds, k \in MaxChars : get_case_text(c, op, k)
    \/ \E o \in SearchOutcomes : SearchResponse(o)
    \/ \E o \in LookupOutcomes : LookupResponse(o)
    \/ \E o \in ClusterOutcomes : ClusterResponse(o)
    \/ \E o \in OpinionOutcomes : OpinionResponse(o)
    \/ Deliver

Spec == Init /\ [][Next]_vars

----------------------------------------------------------------------------
(* Properties *)

TokenAbsent == API_TOKEN = ""
SearchTools == {"search_cases", "semantic_search", "find_citing_cases"}
NeitherId == tool = "get_case_text" /\ args.cluster_id = 0 /\ args.opinion_id = 0

\* C1 as stated: with the credential absent, every invocation of every tool,
\* whatever its arguments, returns the configuration error and issues no request.
C1_ConfigErrorAlways ==
    (TokenAbsent /\ pc = "done") => (result = ErrConfig /\ requests = <<>>)

\* C1 as amended: with the credential absent no invocation issues or awaits a
\* request, and it returns the configuration error unless it is get_case_text
\* with both ids 0, which returns the "provide either id" error.
C1_NoTokenNoRequest ==
    TokenAbsent =>
        /\ requests = <<>>
        /\ outcomes = <<>>
        /\ pc \in {"idle", "done"}
        /\ pc = "done" => result = (IF NeitherId THEN ErrNoIds ELSE ErrConfig)

C1_Witness ==
    /\ TokenAbsent
    /\ pc = "done"
    /\ tool = "get_case_text"
    /\ args.cluster_id # 0
    /\ result = ErrConfig
    /\ requests = <<>>

\* the failure class of an upstream outcome
ClassOf(o) ==
    IF o.kind = "timeout" THEN "timeout"
    ELSE IF o.kind = "request_error" THEN "connection"
    ELSE IF o.status \in 200..299 THEN "none"
    ELSE IF o.status = 401 THEN "auth"
    ELSE IF o.status = 429 THEN "rate"
    ELSE IF o.status = 404 THEN "notfound"
    ELSE "http"

\* the failure class a value returned by api_request signals to the tool
SignalClass(r) ==
    IF ~IsStr(r) THEN "none"
    ELSE IF r.s = <<"Error: Invalid API token. Check COURTLISTENER_API_TOKEN.">> THEN "auth"
    ELSE IF r.s = <<"Error: Rate limit exceeded. CourtListener allows 5,000 requests/day.">>
    THEN "rate"
    ELSE IF r.s = <<"Error: Resource not found.">> THEN "notfound"
    ELSE IF r.s = <<"Error: Request timed out after 30 seconds.">> THEN "timeout"
    ELSE IF Len(r.s) >= 1 /\ r.s[1] = "Error: Connection failed -- " THEN "connection"
    ELSE IF Len(r.s) >= 3 /\ r.s[1] = "Error: HTTP " THEN "http"
    ELSE "other"

IsPrefix(p, t) == Len(p) <= Len(t) /\ SubSeq(t, 1, Len(p)) = p

\* the generic HTTP error carries the status code and at most 300 characters,
\* the first ones, of the body
HttpSignalCarries(r, o) ==
    LET excerpt == SubSeq(r.s, 4, Len(r.s))
    IN  /\ r.s[2] = ToString(o.status)
        /\ Len(excerpt) <= 300
        /\ IsPrefix(excerpt, o.text)
        /\ Len(excerpt) = Len(o.text) \/ Len(excerpt) = 300

\* the failures map to their signals
FailureSignalled(o) ==
    LET r == api_request(API_TOKEN, o)
    IN  /\ SignalClass(r) = ClassOf(o)
        /\ ClassOf(o) = "http" => HttpSignalCarries(r, o)
        /\ ClassOf(o) = "connection" => SubSeq(r.s, 2, Len(r.s)) = o.exc

\* C2: with a credential, every failure class of a request has its own error
\* signal, and a 2xx response gives no error signal.
C2_OneSignalPerClass ==
    ~TokenAbsent => \A i \in 1..Len(outcomes) : FailureSignalled(outcomes[i])

\* the part of C2 about the failures alone (non-2xx statuses, timeouts,
\* connection failures)
C2_FailuresMapped ==
    ~TokenAbsent =>
        \A i \in 1..Len(outcomes) :
            ClassOf(outcomes[i]) # "none" => FailureSignalled(outcomes[i])

MaxRequests(t) == IF t = "get_case_text" THEN 2 ELSE 1

\* C3: an error signal ends the invocation: no request follows it and it is the
\* result; no request is repeated; at most one request per invocation, two for
\* get_case_text.
C3_NoRetries ==
    /\ Len(outcomes) <= Len(requests)
    /\ pc # "idle" => Len(requests) <= MaxRequests(tool)
    /\ \A i \in 1..Len(requests) : \A j \in 1..Len(requests) :
          i # j => requests[i] # requests[j]
    /\ \A i \in 1..Len(outcomes) :
          LET r == api_request(API_TOKEN, outcomes[i])
          IN  IsStr(r) => /\ i = Len(requests)
                          /\ pc = "done"
                          /\ result = r

C3_Witness ==
    /\ tool = "get_case_text"
    /\ pc = "done"
    /\ Len(requests) = 1
    /\ Len(outcomes) = 1
    /\ outcomes[1].kind = "timeout"
    /\ result = ErrTimeout

\* C4: every invocation ends by returning a text; no exception leaves a tool.
C4_NoUncaughtFault == pc = "done" => IsStr(result)

----------------------------------------------------------------------------

\* the value of a string of decimal digits
RECURSIVE Pow10(_)
Pow10(k) == IF k = 0 THEN 1 ELSE 10 * Pow10(k - 1)
RECURSIVE SumTo(_, _)
SumTo(f, n) == IF n = 0 THEN 0 ELSE f[n] + SumTo(f, n - 1)
Decimal(ds) ==
    SumTo([k \in 1..Len(ds) |-> DigitVal(ds[k]) * Pow10(Len(ds) - k)], Len(ds))

\* the segment /opinions/<ds>/ stands in s at position i
SegmentAt(s, i, ds) ==
    /\ Len(ds) >= 1
    /\ \A k \in 1..Len(ds) : ds[k] \in Digits
    /\ i + Len(ds) + 10 <= Len(s)
    /\ SubSeq(s, i, i + Len(ds) + 10) = OpinionsSeg \o ds \o <<"/">>

\* the positions of s where some segment /opinions/<n>/ stands
SegmentStarts(s) ==
    {i \in 1..Len(s) : \E j \in i..Len(s) : SegmentAt(s, i, SubSeq(s, i + 10, j))}

\* the n of the first segment /opinions/<n>/ of s
SegmentId(s) ==
    LET i == CHOOSE k \in SegmentStarts(s) : \A m \in SegmentStarts(s) : k <= m
        j == CHOOSE m \in i..Len(s) : SegmentAt(s, i, SubSeq(s, i + 10, m))
    IN  Decimal(SubSeq(s, i + 10, j))

OpinionUrl(n) == <<"https://www.courtlistener.com/api/rest/v3", "/opinions/", ToString(n), "/">>
ClusterUrl(n) == <<"https://www.courtlistener.com/api/rest/v3", "/clusters/", ToString(n), "/">>

ByCluster ==
    /\ tool = "get_case_text"
    /\ args.cluster_id # 0
    /\ args.opinion_id = 0
    /\ ~TokenAbsent

\* the cluster request succeeded with a JSON object
ClusterFetched ==
    /\ ByCluster
    /\ Len(outcomes) >= 1
    /\ outcomes[1].kind = "response"
    /\ outcomes[1].status \in 200..299
    /\ outcomes[1].json.t = "obj"

SubOpinions == Get(outcomes[1].json.o, "sub_opinions", Arr(<<>>))
FirstRefMatches ==
    /\ SubOpinions.a[1].t = "str"
    /\ SegmentStarts(SubOpinions.a[1].s) # {}

\* C5: get_case_text by cluster id fetches the cluster first, then exactly the
\* opinion named by the first sub-opinion reference; without a reference, or with
\* one that holds no /opinions/<n>/, it returns the explicit error and fetches no
\* opinion; with neither id it fails without a request.
C5_ClusterThenOpinion ==
    /\ (ByCluster /\ pc # "idle") =>
          /\ Len(requests) >= 1
          /\ requests[1].method = "GET"
          /\ requests[1].url = ClusterUrl(args.cluster_id)
          /\ Len(outcomes) = 0 => Len(requests) = 1
    /\ (ClusterFetched /\ SubOpinions.t = "arr") =>
          IF Len(SubOpinions.a) = 0
          THEN /\ Len(requests) = 1
               /\ pc = "done"
               /\ result.s = <<"Error: No opinions found in cluster ",
                               ToString(args.cluster_id), ".">>
          ELSE IF FirstRefMatches
          THEN /\ Len(requests) = 2
               /\ requests[2].method = "GET"
               /\ requests[2].url = OpinionUrl(SegmentId(SubOpinions.a[1].s))
               /\ SubOpinions.a[1].s = Url987 => requests[2].url[3] = "987"
          ELSE /\ Len(requests) = 1
               /\ pc = "done"
               /\ result.s = <<"Error: Could not parse opinion ID from cluster data.">>
    /\ (pc # "idle" /\ NeitherId) =>
          /\ pc = "done"
          /\ requests = <<>>
          /\ result = ErrNoIds

C5_Witness ==
    /\ ClusterFetched
    /\ SubOpinions.t = "arr"
    /\ Len(SubOpinions.a) > 0
    /\ SubOpinions.a[1] = Str(Url987)
    /\ Len(requests) = 2
    /\ requests[2].url = OpinionUrl(987)
    /\ pc = "done"

----------------------------------------------------------------------------

Clamped(limit) == IF limit < 1 THEN 1 ELSE IF limit > 20 THEN 20 ELSE limit

\* C8: the three search tools send the caller's limit clamped into 1..20, and
\* send the request whatever the limit is.
C8_LimitClamped ==
    (tool \in SearchTools /\ ~TokenAbsent) =>
        /\ Len(requests) = 1
        /\ requests[1].params.limit = Clamped(args.limit)
        /\ requests[1].params.limit \in 1..20
        /\ args.limit \in 1..20 => requests[1].params.limit = args.limit

C8_Witness ==
    /\ tool = "search_cases"
    /\ args.limit = 500
    /\ Len(requests) = 1
    /\ requests[1].params.limit = 20

----------------------------------------------------------------------------
(* Reading a tool's output text back *)

\* the lines of a text: its atoms between the newlines
RECURSIVE SplitLines(_)
SplitLines(out) ==
    LET nl == {k \in 1..Len(out) : out[k] = "\n"}
    IN  IF nl = {} THEN <<out>>
        ELSE LET k == CHOOSE m \in nl : \A n \in nl : m <= n
             IN  <<SubSeq(out, 1, k - 1)>> \o SplitLines(SubSeq(out, k + 1, Len(out)))

Positions(out, atom) == {k \in 1..Len(out) : out[k] = atom}
Least(S) == CHOOSE m \in S : \A n \in S : m <= n

\* the last upstream answer of the invocation and the request it answers
LastOutcome == outcomes[Len(outcomes)]
LastRequest == requests[Len(outcomes)]

----------------------------------------------------------------------------
(* Search-result formatting *)

\* a result of the SearchResult shape: an object whose snippet, if given, is a
\* text and whose citations are not a list that mixes objects with other values
ShapedResult(case) ==
    /\ case.t = "obj"
    /\ "snippet" \in DOMAIN case.o => case.o.snippet.t = "str"
    /\ "caseName" \in DOMAIN case.o => case.o.caseName.t = "str"
    /\ "cluster_id" \in DOMAIN case.o => case.o.cluster_id.t = "num"
    /\ "citations" \in DOMAIN case.o =>
          (case.o.citations.t = "arr" =>
              \A i \in 1..Len(case.o.citations.a) : \A j \in 1..Len(case.o.citations.a) :
                  case.o.citations.a[i].t = case.o.citations.a[j].t)

\* a search invocation has returned on a payload with a list of N >= 1 results
SearchFormatted ==
    /\ tool \in SearchTools
    /\ pc = "done"
    /\ Len(outcomes) = 1
    /\ outcomes[1].kind = "response"
    /\ outcomes[1].status \in 200..299
    /\ outcomes[1].json.t = "obj"
    /\ "results" \in DOMAIN outcomes[1].json.o
    /\ outcomes[1].json.o.results.t = "arr"
    /\ Len(outcomes[1].json.o.results.a) >= 1
    /\ \A i \in 1..Len(outcomes[1].json.o.results.a) :
          ShapedResult(outcomes[1].json.o.results.a[i])

Results == outcomes[1].json.o.results.a

IsNumbered(line) == Len(line) >= 3 /\ line[2] = ". "
IsClusterLine(line) == Len(line) >= 2 /\ line[1] = "   Cluster ID: "

NameOf(case) == IF "caseName" \in DOMAIN case.o THEN case.o.caseName.s ELSE <<"Unknown">>
IdOf(case) ==
    IF "cluster_id" \in DOMAIN case.o THEN ToString(case.o.cluster_id.n) ELSE "N/A"

\* C9: on a payload with N >= 1 results the header carries the reported total
\* and N blocks follow, numbered 1..N, the i-th one describing the i-th result.
C9_BlocksInOrder ==
    SearchFormatted =>
        /\ IsStr(result)
        /\ LET lines == SplitLines(result.s)
               head == lines[1]
               numbered == SelectSeq(lines, IsNumbered)
               ids == SelectSeq(lines, IsClusterLine)
               N == Len(Results)
           IN  /\ Len(head) >= 3
               /\ head[Len(head) - 2] = " ("
               /\ head[Len(head)] = " total results)"
               /\ "count" \in DOMAIN outcomes[1].json.o =>
                     head[Len(head) - 1] = ToString(outcomes[1].json.o.count.n)
               /\ Len(numbered) = N
               /\ Len(ids) = N
               /\ \A i \in 1..N :
                     /\ numbered[i][1] = ToString(i)
                     /\ IsPrefix(NameOf(Results[i]), SubSeq(numbered[i], 3, Len(numbered[i])))
                     /\ ids[i][2] = IdOf(Results[i])

C9_Witness ==
    /\ SearchFormatted
    /\ Results = <<CaseMiranda, CaseRoe>>
    /\ IsStr(result)
    /\ Len(SelectSeq(SplitLines(result.s), IsNumbered)) = 2

----------------------------------------------------------------------------
(* Opinion text *)

Priority ==
    <<"plain_text", "html_with_citations", "html", "html_columbia", "html_lawbox",
      "html_anon_2020", "xml_harvard">>

\* get_case_text has returned on an opinion payload, an object whose text
\* fields are texts
OpinionAnswered ==
    /\ tool = "get_case_text"
    /\ pc = "done"
    /\ Len(outcomes) >= 1
    /\ Len(outcomes) = Len(requests)
    /\ LastRequest.url[2] = "/opinions/"
    /\ LastOutcome.kind = "response"
    /\ LastOutcome.status \in 200..299
    /\ LastOutcome.json.t = "obj"
    /\ \A i \in 1..Len(Priority) :
          Priority[i] \in DOMAIN LastOutcome.json.o =>
              LastOutcome.json.o[Priority[i]].t = "str"

FieldText(f) ==
    IF f \in DOMAIN LastOutcome.json.o THEN LastOutcome.json.o[f].s ELSE <<>>
NonEmptyFields == {i \in 1..Len(Priority) : Len(FieldText(Priority[i])) > 0}
FirstField == Priority[Least(NonEmptyFields)]

\* the tags of s: from a "<" to the next ">", with something between them
TagSpans(s) ==
    {sp \in (1..Len(s)) \X (1..Len(s)) :
        /\ s[sp[1]] = "<"
        /\ sp[2] > sp[1] + 1
        /\ s[sp[2]] = ">"
        /\ \A k \in (sp[1] + 1)..(sp[2] - 1) : s[k] # ">"}

\* s with its tags taken out, one at a time, until none is left
RECURSIVE Untagged(_)
Untagged(s) ==
    IF TagSpans(s) = {} THEN s
    ELSE LET sp == CHOOSE a \in TagSpans(s) : \A b \in TagSpans(s) : a[1] <= b[1]
         IN  Untagged(SubSeq(s, 1, sp[1] - 1) \o SubSeq(s, sp[2] + 1, Len(s)))

\* the text of the first non-empty field: plain text as it is, html untagged
ExpectedText ==
    IF FirstField = "plain_text" THEN FieldText(FirstField)
    ELSE Untagged(FieldText(FirstField))

HasNotice == Positions(result.s, "[Truncated at ") # {}
\* the opinion text of the output: what stands between the text marker and the
\* truncation notice, or the end
EmittedText ==
    LET from == Least(Positions(result.s, "--- OPINION TEXT ---")) + 2
        to == IF HasNotice THEN Least(Positions(result.s, "[Truncated at ")) - 3
              ELSE Len(result.s)
    IN  SubSeq(result.s, from, to)
EmittedSource ==
    result.s[Least(Positions(result.s, "Text Source: ")) + 1]

NoTextError ==
    result = Str(<<"Error: No text content available for opinion ", LastRequest.url[3], ".">>)
HasText == IsStr(result) /\ Positions(result.s, "--- OPINION TEXT ---") # {}

TextFromFirstField ==
    /\ HasText
    /\ EmittedSource = FirstField
    /\ IsPrefix(EmittedText, ExpectedText)
    /\ ~HasNotice => EmittedText = ExpectedText

\* C6 as stated: the text is that of the first non-empty field, named as the
\* Text Source, and the "no text content" error is returned exactly when all the
\* fields are empty.
C6_ErrorIffAllEmpty ==
    OpinionAnswered =>
        /\ NoTextError <=> NonEmptyFields = {}
        /\ NonEmptyFields # {} => TextFromFirstField

\* C6 as amended: the "no text content" error is returned exactly when the
\* first non-empty field leaves no text (there is none, or it holds tags only).
C6_FirstNonEmptyField ==
    OpinionAnswered =>
        /\ NoTextError <=> (NonEmptyFields = {} \/ ExpectedText = <<>>)
        /\ (NonEmptyFields # {} /\ ExpectedText # <<>>) => TextFromFirstField

C6_Witness ==
    /\ OpinionAnswered
    /\ FieldText("plain_text") = <<>>
    /\ FieldText("html_with_citations") = <<>>
    /\ FieldText("html") = <<"<", "a", ">">>
    /\ FieldText("html_columbia") = <<"z">>
    /\ NoTextError

TruncatedTo(K) ==
    IF Len(ExpectedText) > K
    THEN /\ Len(EmittedText) = K
         /\ IsPrefix(EmittedText, ExpectedText)
         /\ HasNotice
    ELSE /\ EmittedText = ExpectedText
         /\ ~HasNotice

\* C7 as stated: for every integer max_characters K, a text longer than K is
\* cut to its first K characters and a notice follows; any other text is
\* emitted whole, without a notice.
C7_TruncatedToK ==
    (OpinionAnswered /\ HasText) => TruncatedTo(args.max_characters)

\* C7 as amended: the same for every K >= 0.
C7_TruncatedToNonNegativeK ==
    (OpinionAnswered /\ HasText /\ args.max_characters >= 0) =>
        TruncatedTo(args.max_characters)

C7_Witness ==
    /\ OpinionAnswered
    /\ HasText
    /\ args.max_characters = 2
    /\ Len(ExpectedText) = 3
    /\ Len(EmittedText) = 2
    /\ HasNotice

----------------------------------------------------------------------------
(* Concurrent invocations over the shared client *)

Connections == inflight.direct + inflight.queued

PoolHasRoom_OneLess(n) == n < MaxConnections - 1
\* a connection can be had at once: fewer than max_connections are in use
PoolHasRoom(n) == n < MaxConnections

\* `await client.request(...)` is reached: the call gets a connection, or waits
\* for one when all are in use
SendRequest ==
    /\ ready > 0
    /\ ready' = ready - 1
    /\ IF PoolHasRoom(Connections)
       THEN inflight' = [inflight EXCEPT !.direct = @ + 1] /\ UNCHANGED waiting
       ELSE waiting' = waiting + 1 /\ UNCHANGED inflight
    /\ UNCHANGED <<finished, toolVars>>

\* a call that got its connection at once receives its response and returns;
\* its connection goes to a waiting call if there is one
DirectResponse ==
    /\ inflight.direct > 0
    /\ finished' = [finished EXCEPT !.own = @ + 1]
    /\ IF waiting > 0
       THEN /\ waiting' = waiting - 1
            /\ inflight' = [inflight EXCEPT !.direct = @ - 1, !.queued = @ + 1]
       ELSE /\ inflight' = [inflight EXCEPT !.direct = @ - 1]
            /\ UNCHANGED waiting
    /\ UNCHANGED <<ready, toolVars>>

\* the same for a call that had to wait for its connection
QueuedResponse ==
    /\ inflight.queued > 0
    /\ finished' = [finished EXCEPT !.own_delayed = @ + 1]
    /\ IF waiting > 0
       THEN waiting' = waiting - 1 /\ UNCHANGED inflight
       ELSE inflight' = [inflight EXCEPT !.queued = @ - 1] /\ UNCHANGED waiting
    /\ UNCHANGED <<ready, toolVars>>

\* the 30 seconds pass while a call waits for a connection: client.request
\* raises a TimeoutException and api_request returns the timeout error, though
\* nothing was sent upstream
PoolTimeout ==
    /\ waiting > 0
    /\ waiting' = waiting - 1
    /\ finished' = [finished EXCEPT !.pool_timeout = @ + 1]
    /\ UNCHANGED <<ready, inflight, toolVars>>

InitPool ==
    /\ API_TOKEN = "tok"
    /\ pc = "idle"
    /\ tool = "none"
    /\ args = EmptyDict
    /\ requests = <<>>
    /\ outcomes = <<>>
    /\ locals = InitLocals
    /\ result = NoResult
    /\ ready = NumCalls
    /\ waiting = 0
    /\ inflight = NoneInFlight
    /\ finished = NoneFinished

NextPool ==
    \/ SendRequest
    \/ DirectResponse
    \/ QueuedResponse
    \/ PoolTimeout

SpecPool == InitPool /\ [][NextPool]_vars

Started == NumCalls - ready

\* C10 as stated: whatever the number of calls in flight, none waits for another,
\* none is delayed into a timeout, none has its result decided by the others.
C10_NeverWaits ==
    /\ waiting = 0
    /\ inflight.queued = 0
    /\ finished.own_delayed = 0
    /\ finished.pool_timeout = 0

\* C10 as amended: a call waits only while 10 others hold all the connections
\* of the pool; while no more than 10 calls have been started, none waits, none
\* is delayed and every result is decided by the call's own response.
C10_WaitsOnlyWhenPoolFull ==
    /\ Connections <= 10
    /\ waiting > 0 => Connections = 10
    /\ Started <= 10 => C10_NeverWaits
    /\ finished.pool_timeout + finished.own_delayed + inflight.queued + waiting
          <= (IF Started > 10 THEN Started - 10 ELSE 0)

C10_Witness ==
    /\ Connections = 10
    /\ finished.pool_timeout = 1
    /\ finished.own = 0

====
